---------------------------- MODULE Spec2Model ----------------------------
(***************************************************************************)
(* A state-machine model of the USART driver of lpc8xx-hal                 *)
(* (src/src/usart/peripheral.rs): one USART handle, the registers of its   *)
(* instance, the clock gate and clock select of that instance at SYSCON,   *)
(* and the NVIC entry of its interrupt.                                    *)
(*                                                                         *)
(* The type state of the handle (USART<I, Disabled>, USART<I,              *)
(* Enabled<W, Mode>>) is the variable `state` with the tags `word` and     *)
(* `mode`; a method of an impl block is an action guarded by that block's  *)
(* state.  Register fields carry the names of the PAC's field variants.    *)
(*                                                                         *)
(* Rx, Tx, Flag, Interrupts, Settings and the SYSCON handle are used by    *)
(* peripheral.rs but defined elsewhere in the crate; the operators named   *)
(* after them follow the specification of the driver.  The actions of the  *)
(* hardware follow the register-level contract of the specification.       *)
(***************************************************************************)
EXTENDS Integers, FiniteSets, Sequences, TLC

VARIABLES
    state,        \* type state of the handle: "Disabled", "Enabled", "Freed"
    word,         \* W of Enabled<W, Mode>: "u8", "u16"; "none" when not Enabled
    mode,         \* Mode of Enabled<W, Mode>: "AsyncMode", "SyncMode"; "none"
    sysclk,       \* SYSCON: clock gate of this instance (TRUE = clock enabled)
    clksel,       \* SYSCON: clock source selected for this instance
    cfg,          \* USART CFG register, by field
    ctl,          \* USART CTL register, by field
    brg,          \* USART BRG register (BRGVAL)
    osr,          \* USART OSR register (OSRVAL)
    intenset,     \* USART interrupt enable bits: set of enabled sources
    nvicEnabled,  \* NVIC: this instance's interrupt is unmasked
    nvicPending,  \* NVIC: this instance's interrupt is pending
    rxbuf,        \* receiver: receive buffer, <<>> or <<w>> (a word is ready)
    rxerr,        \* receiver: latched error conditions
    thr,          \* transmitter: holding register, <<>> or <<w>>
    tsr,          \* transmitter: shift register, <<>> or <<w>>
    lastEnable,   \* the most recent enable_* call: its name, "none" before any
    lastOp,       \* the most recent driver call: name, arguments, result
    msg,          \* caller: the buffer handed to bwrite_all
    pending,      \* caller: the words of msg not yet accepted by write
    accepted,     \* caller: the words for which write returned Ok, in order
    callerPc,     \* caller: "none", "enable", "bwrite_all", "bflush", "done"
    line,         \* the words that have left the shift register, in order
    swmFunction,  \* SWM: type state of each function: "Unassigned",
                  \* "Assigned", or "Moved" once an enable_* call took it
    pinassign,    \* SWM: the pin each function is routed to, "none" if none
    lastSwm,      \* the most recent assign or unassign call
    pc,           \* enable_* in progress: the step to take next, 0 if none
    call,         \* enable_* in progress: its name, its arguments and the
                  \* registers as they were at the call
    steps,        \* the accesses made by the enable_* call in progress or,
                  \* if none is, by the most recent one, in order
    rx,           \* the rx field moved out of the handle: the position of
                  \* the context that holds it, the result of its last read
    tx            \* the tx field moved out of the handle: the position of
                  \* the context that holds it, the word of the write in
                  \* progress, the result of its last write or flush

vars == <<state, word, mode, sysclk, clksel, cfg, ctl, brg, osr, intenset,
          nvicEnabled, nvicPending, rxbuf, rxerr, thr, tsr,
          lastEnable, lastOp, msg, pending, accepted, callerPc, line,
          swmFunction, pinassign, lastSwm, pc, call, steps, rx, tx>>

regs == <<cfg, ctl, brg, osr, intenset>>
rxtx == <<rxbuf, rxerr, thr, tsr>>
nvic == <<nvicEnabled, nvicPending>>
handle == <<state, word, mode>>
caller == <<msg, pending, accepted, callerPc, line>>
swm == <<swmFunction, pinassign, lastSwm>>
enabling == <<pc, call, steps>>
halves == <<rx, tx>>
usart == <<handle, sysclk, clksel, regs, nvic, rxtx, lastEnable, lastOp>>

---------------------------------------------------------------------------
(* Bounds of the model *)

MaxBrgval == 1
NumOsrval == 2
MaxWord == 1
MaxMsg == 3

---------------------------------------------------------------------------
(* Inputs *)

BrgVals == 0..MaxBrgval
OsrVals == (16 - NumOsrval)..15
Clocks == [brgval : BrgVals, osrval : OsrVals]
ClockSources == {"FRG0"}
Words == 0..MaxWord

DataLens == {"BIT_8", "BIT_9"}
Parities == {"NO_PARITY", "EVEN_PARITY"}
StopLens == {"BIT_1", "BIT_2"}
ClkPols == {"FALLING_EDGE", "RISING_EDGE"}
SettingsSet == [datalen : DataLens, paritysel : Parities,
                stoplen : StopLens, clkpol : ClkPols]

Sources == {"RXRDY", "TXRDY"}
Errors == {"Overrun", "Framing", "Parity", "Noise", "Break"}
WordErrors == Errors \ {"Overrun"}

\* the movable functions of the instance, and the pins they can go to
Functions == {"U0_RXD", "U0_TXD", "U0_SCLK"}
Pins == {"PIO0_0", "PIO0_4", "PIO0_1"}

NoArg == "-"
NoRes == [kind |-> "unit", err |-> "-", word |-> 0, flag |-> FALSE]

---------------------------------------------------------------------------
(* Registers after a hardware reset *)

ResetCfg == [enable |-> "DISABLED", datalen |-> "BIT_7",
             paritysel |-> "NO_PARITY", stoplen |-> "BIT_1",
             ctsen |-> "DISABLED", syncen |-> "ASYNCHRONOUS_MODE",
             clkpol |-> "FALLING_EDGE", syncmst |-> "SLAVE",
             loop |-> "NORMAL", autoaddr |-> "DISABLED"]

ResetCtl == [txbrken |-> "NORMAL", addrdet |-> "DISABLED",
             txdis |-> "ENABLED", cc |-> "CLOCK_ON_CHARACTER",
             autobaud |-> "DISABLED"]

\* USART::new: the handle of a peripheral that has not been touched
new ==
    /\ state = "Disabled" /\ word = "none" /\ mode = "none"
    /\ sysclk = FALSE /\ clksel = "none"
    /\ cfg = ResetCfg /\ ctl = ResetCtl /\ brg = 0 /\ osr = 15
    /\ intenset = {}
    /\ nvicEnabled = FALSE /\ nvicPending = FALSE
    /\ rxbuf = <<>> /\ rxerr = {}
    /\ thr = <<>> /\ tsr = <<>>
    /\ lastEnable = "none"
    /\ lastOp = [op |-> "new", arg |-> NoArg, res |-> NoRes]

\* no caller is part of the program
NoCaller ==
    /\ msg = <<>> /\ pending = <<>> /\ accepted = <<>>
    /\ callerPc = "none" /\ line = <<>>

\* p.SWM.split(): every movable function is Unassigned
swm_split ==
    /\ swmFunction = [f \in Functions |-> "Unassigned"]
    /\ pinassign = [f \in Functions |-> "none"]
    /\ lastSwm = [op |-> "split", function |-> NoArg, pin |-> NoArg]

\* no enable_* call is in progress
NoCall == [op |-> "none", clock |-> NoArg, source |-> NoArg,
           settings |-> NoArg, before |-> NoArg]
Idle == pc = 0 /\ call = NoCall /\ steps = <<>>

\* the rx and tx fields are in the handle
InHandle == [pc |-> "handle", op |-> "none", word |-> 0, res |-> NoRes]
Whole == rx = InHandle /\ tx = InHandle

Init == new /\ NoCaller /\ swm_split /\ Idle /\ Whole

---------------------------------------------------------------------------
(* impl USART<I, Disabled> *)

\* Settings<W>::apply: the line-format fields of CFG, from the settings.
Settings_apply(settings, w) ==
    [w EXCEPT !.datalen = settings.datalen,
              !.paritysel = settings.paritysel,
              !.stoplen = settings.stoplen,
              !.clkpol = settings.clkpol]

\* W of Settings<W>: the word type a data length is carried in.
Settings_Word(settings) ==
    IF settings.datalen = "BIT_9" THEN "u16" ELSE "u8"

\* mutant: apply_general_config without w.autoaddr().enabled()
apply_general_config_NoAutoaddr(w) ==
    [w EXCEPT !.enable = "ENABLED",
              !.ctsen = "DISABLED",
              !.loop = "NORMAL"]

apply_general_config(w) ==
    [w EXCEPT !.enable = "ENABLED",
              !.ctsen = "DISABLED",
              !.loop = "NORMAL",
              !.autoaddr = "ENABLED"]

\* syscon::Handle::enable_clock: the clock gate of the instance, on
syscon_enable_clock(gate) == TRUE

\* syscon::Handle::disable_clock: the clock gate of the instance, off
syscon_disable_clock(gate) == FALSE

\* ClockSource::select: the clock source of the instance
ClockSource_select(C, selected) == C

\* the closure of ctl.modify in configure
configure_ctl(w) ==
    [w EXCEPT !.txbrken = "NORMAL",
              !.addrdet = "DISABLED",
              !.txdis = "ENABLED",
              !.cc = "CONTINOUS_CLOCK",
              !.autobaud = "DISABLED"]

\* mutant: configure without syscon.enable_clock
configure_NoClock(C) ==
    /\ sysclk' = sysclk
    /\ clksel' = ClockSource_select(C, clksel)
    /\ ctl' = configure_ctl(ctl)

\* syscon.enable_clock, C::select, then ctl.modify
configure(C) ==
    /\ sysclk' = syscon_enable_clock(sysclk)
    /\ clksel' = ClockSource_select(C, clksel)
    /\ ctl' = configure_ctl(ctl)

\* the closure of cfg.modify in enable_async
cfg_async(w, settings) ==
    Settings_apply(settings,
        apply_general_config([w EXCEPT !.syncen = "ASYNCHRONOUS_MODE"]))

\* mutant: enable_sync_as_master without w.syncmst().master()
cfg_sync_master_NoSyncmst(w, settings) ==
    Settings_apply(settings,
        apply_general_config([w EXCEPT !.syncen = "SYNCHRONOUS_MODE"]))

\* the closure of cfg.modify in enable_sync_as_master
cfg_sync_master(w, settings) ==
    Settings_apply(settings,
        apply_general_config([w EXCEPT !.syncen = "SYNCHRONOUS_MODE",
                                       !.syncmst = "MASTER"]))

\* mutant: enable_sync_as_slave without w.syncmst().slave()
cfg_sync_slave_NoSyncmst(w, settings) ==
    Settings_apply(settings,
        apply_general_config([w EXCEPT !.syncen = "SYNCHRONOUS_MODE"]))

\* the closure of cfg.modify in enable_sync_as_slave
cfg_sync_slave(w, settings) ==
    Settings_apply(settings,
        apply_general_config([w EXCEPT !.syncen = "SYNCHRONOUS_MODE",
                                       !.syncmst = "SLAVE"]))

\* the registers an enable_* call programs, as one value
Regs(c, b, o) == [cfg |-> c, brg |-> b, osr |-> o]
ResetRegs == Regs(ResetCfg, 0, 15)

\* the register writes of enable_async after configure: BRG, OSR, CFG
enable_async_regs(r, clock, settings) ==
    [r EXCEPT !.brg = clock.brgval,
              !.osr = clock.osrval,
              !.cfg = cfg_async(r.cfg, settings)]

\* mutant: enable_sync_as_master writing OSR as enable_async does
enable_sync_as_master_regs_WithOsr(r, clock, settings) ==
    [r EXCEPT !.brg = clock.brgval,
              !.osr = clock.osrval,
              !.cfg = cfg_sync_master(r.cfg, settings)]

\* the register writes of enable_sync_as_master after configure: BRG, CFG
enable_sync_as_master_regs(r, clock, settings) ==
    [r EXCEPT !.brg = clock.brgval,
              !.cfg = cfg_sync_master(r.cfg, settings)]

\* the register write of enable_sync_as_slave after configure: CFG
enable_sync_as_slave_regs(r, settings) ==
    [r EXCEPT !.cfg = cfg_sync_slave(r.cfg, settings)]

\* the Mode of the Enabled<W, Mode> each enable_* returns
EnabledMode(op) ==
    CASE op = "enable_async" -> "AsyncMode"
      [] op = "enable_sync_as_master" -> "SyncMode"
      [] op = "enable_sync_as_slave" -> "SyncMode"

\* USART { rx: Rx::new(), tx: Tx::new(), usart: self.usart } typed Enabled
Enabled(op, settings) ==
    /\ state' = "Enabled"
    /\ word' = Settings_Word(settings)
    /\ mode' = EnabledMode(op)
    /\ lastEnable' = op

\* mutant: the enable_* methods placed in the impl block of every state
IsDisabled_AnyState == state \in {"Disabled", "Enabled"}

\* impl<I> USART<I, Disabled>: the methods of this block take a Disabled self
IsDisabled == state = "Disabled"

\* impl<I, W, Mode> USART<I, Enabled<W, Mode>>: an Enabled self
IsEnabled == state = "Enabled"

enable_async(CS, SS) ==
    \E clock \in CS, C \in ClockSources, settings \in SS :
        LET r == enable_async_regs(Regs(cfg, brg, osr), clock, settings) IN
        /\ IsDisabled
        /\ configure(C)
        /\ brg' = r.brg /\ osr' = r.osr /\ cfg' = r.cfg
        /\ Enabled("enable_async", settings)
        /\ lastOp' = [op |-> "enable_async",
                      arg |-> [clock |-> clock, source |-> C,
                               settings |-> settings],
                      res |-> NoRes]
        /\ UNCHANGED <<intenset, nvic, rxtx>>

enable_sync_as_master(CS, SS) ==
    \E clock \in CS, C \in ClockSources, settings \in SS :
        LET r == enable_sync_as_master_regs(Regs(cfg, brg, osr), clock,
                                            settings) IN
        /\ IsDisabled
        /\ configure(C)
        /\ brg' = r.brg /\ osr' = r.osr /\ cfg' = r.cfg
        /\ Enabled("enable_sync_as_master", settings)
        /\ lastOp' = [op |-> "enable_sync_as_master",
                      arg |-> [clock |-> clock, source |-> C,
                               settings |-> settings],
                      res |-> NoRes]
        /\ UNCHANGED <<intenset, nvic, rxtx>>

enable_sync_as_slave(SS) ==
    \E C \in ClockSources, settings \in SS :
        LET r == enable_sync_as_slave_regs(Regs(cfg, brg, osr), settings) IN
        /\ IsDisabled
        /\ configure(C)
        /\ brg' = r.brg /\ osr' = r.osr /\ cfg' = r.cfg
        /\ Enabled("enable_sync_as_slave", settings)
        /\ lastOp' = [op |-> "enable_sync_as_slave",
                      arg |-> [source |-> C, settings |-> settings],
                      res |-> NoRes]
        /\ UNCHANGED <<intenset, nvic, rxtx>>

---------------------------------------------------------------------------
(* impl USART<I, Enabled<W, Mode>> *)

\* mutant: disable clearing the enable bit of CFG before gating the clock
disable_ClearingEnable ==
    /\ IsEnabled
    /\ sysclk' = syscon_disable_clock(sysclk)
    /\ cfg' = [cfg EXCEPT !.enable = "DISABLED"]
    /\ state' = "Disabled" /\ word' = "none" /\ mode' = "none"
    /\ lastOp' = [op |-> "disable", arg |-> NoArg, res |-> NoRes]
    /\ UNCHANGED <<clksel, ctl, brg, osr, intenset, nvic, rxtx, lastEnable>>

disable ==
    /\ IsEnabled
    /\ sysclk' = syscon_disable_clock(sysclk)
    /\ state' = "Disabled" /\ word' = "none" /\ mode' = "none"
    /\ lastOp' = [op |-> "disable", arg |-> NoArg, res |-> NoRes]
    /\ UNCHANGED <<clksel, regs, nvic, rxtx, lastEnable>>

\* Flag::is_set: the status bit of a flag
ErrorFlags == {"OVERRUNINT", "FRAMERRINT", "PARITYERRINT", "RXNOISEINT",
               "DELTARXBRK"}
Flags == {"RXRDY", "TXRDY", "TXIDLE"} \cup ErrorFlags

FlagError(flag) ==
    CASE flag = "OVERRUNINT" -> "Overrun"
      [] flag = "FRAMERRINT" -> "Framing"
      [] flag = "PARITYERRINT" -> "Parity"
      [] flag = "RXNOISEINT" -> "Noise"
      [] flag = "DELTARXBRK" -> "Break"

\* the STAT register, bit by bit
Stat(flag) ==
    CASE flag = "RXRDY" -> rxbuf # <<>>
      [] flag = "TXRDY" -> thr = <<>>
      [] flag = "TXIDLE" -> thr = <<>> /\ tsr = <<>>
      [] OTHER -> FlagError(flag) \in rxerr

\* Flag::is_set: reads the bit; a flag software must reset is reset
Flag_is_set(flag) ==
    IF flag \in ErrorFlags THEN rxerr \ {FlagError(flag)} ELSE rxerr

\* mutant: is_flag_set resetting every flag that software must reset
is_flag_set_ClearingAll(FS) ==
    \E flag \in FS :
        /\ IsEnabled
        /\ rxerr' = IF flag \in ErrorFlags THEN {} ELSE rxerr
        /\ lastOp' = [op |-> "is_flag_set", arg |-> flag,
                      res |-> [NoRes EXCEPT !.kind = "bool",
                                            !.flag = Stat(flag)]]
        /\ UNCHANGED <<handle, sysclk, clksel, regs, nvic, rxbuf,
                       thr, tsr, lastEnable>>

is_flag_set(FS) ==
    \E flag \in FS :
        /\ IsEnabled
        /\ rxerr' = Flag_is_set(flag)
        /\ lastOp' = [op |-> "is_flag_set", arg |-> flag,
                      res |-> [NoRes EXCEPT !.kind = "bool",
                                            !.flag = Stat(flag)]]
        /\ UNCHANGED <<handle, sysclk, clksel, regs, nvic, rxbuf,
                       thr, tsr, lastEnable>>

enable_in_nvic ==
    /\ IsEnabled
    /\ nvicEnabled' = TRUE
    /\ lastOp' = [op |-> "enable_in_nvic", arg |-> NoArg, res |-> NoRes]
    /\ UNCHANGED <<handle, sysclk, clksel, regs, nvicPending, rxtx,
                   lastEnable>>

\* mutant: disable_in_nvic also clearing the interrupt enables of the USART
disable_in_nvic_ClearingSources ==
    /\ IsEnabled
    /\ nvicEnabled' = FALSE
    /\ intenset' = {}
    /\ lastOp' = [op |-> "disable_in_nvic", arg |-> NoArg, res |-> NoRes]
    /\ UNCHANGED <<handle, sysclk, clksel, cfg, ctl, brg, osr, nvicPending,
                   rxtx, lastEnable>>

disable_in_nvic ==
    /\ IsEnabled
    /\ nvicEnabled' = FALSE
    /\ lastOp' = [op |-> "disable_in_nvic", arg |-> NoArg, res |-> NoRes]
    /\ UNCHANGED <<handle, sysclk, clksel, regs, nvicPending, rxtx,
                   lastEnable>>

clear_nvic_pending ==
    /\ IsEnabled
    /\ nvicPending' = FALSE
    /\ lastOp' = [op |-> "clear_nvic_pending", arg |-> NoArg, res |-> NoRes]
    /\ UNCHANGED <<handle, sysclk, clksel, regs, nvicEnabled, rxtx,
                   lastEnable>>

\* mutant: Interrupts::enable overwriting the enable bits with the mask
Interrupts_enable_Overwrite(mask, enabled) == mask

\* Interrupts::enable: a write of the mask to INTENSET
Interrupts_enable(mask, enabled) == enabled \cup mask

\* Interrupts::disable: a write of the mask to INTENCLR
Interrupts_disable(mask, enabled) == enabled \ mask

enable_interrupts(MS) ==
    \E interrupts \in MS :
        /\ IsEnabled
        /\ intenset' = Interrupts_enable(interrupts, intenset)
        /\ lastOp' = [op |-> "enable_interrupts", arg |-> interrupts,
                      res |-> NoRes]
        /\ UNCHANGED <<handle, sysclk, clksel, cfg, ctl, brg, osr, nvic,
                       rxtx, lastEnable>>

\* mutant: disable_interrupts calling interrupts.enable
disable_interrupts_Enabling(MS) ==
    \E interrupts \in MS :
        /\ IsEnabled
        /\ intenset' = Interrupts_enable(interrupts, intenset)
        /\ lastOp' = [op |-> "disable_interrupts", arg |-> interrupts,
                      res |-> NoRes]
        /\ UNCHANGED <<handle, sysclk, clksel, cfg, ctl, brg, osr, nvic,
                       rxtx, lastEnable>>

disable_interrupts(MS) ==
    \E interrupts \in MS :
        /\ IsEnabled
        /\ intenset' = Interrupts_disable(interrupts, intenset)
        /\ lastOp' = [op |-> "disable_interrupts", arg |-> interrupts,
                      res |-> NoRes]
        /\ UNCHANGED <<handle, sysclk, clksel, cfg, ctl, brg, osr, nvic,
                       rxtx, lastEnable>>

---------------------------------------------------------------------------
(* impl USART<I, State> *)

\* mutant: free turning the clock of the instance off as disable does
free_GatingClock ==
    /\ state \in {"Disabled", "Enabled"}
    /\ state' = "Freed" /\ word' = "none" /\ mode' = "none"
    /\ sysclk' = syscon_disable_clock(sysclk)
    /\ lastOp' = [op |-> "free", arg |-> NoArg, res |-> NoRes]
    /\ UNCHANGED <<clksel, regs, nvic, rxtx, lastEnable>>

free ==
    /\ state \in {"Disabled", "Enabled"}
    /\ state' = "Freed" /\ word' = "none" /\ mode' = "none"
    /\ lastOp' = [op |-> "free", arg |-> NoArg, res |-> NoRes]
    /\ UNCHANGED <<sysclk, clksel, regs, nvic, rxtx, lastEnable>>

---------------------------------------------------------------------------
(* impl Read<W>, impl Write<W> for USART<I, Enabled<W, Mode>> *)

\* the error read reports when several are latched
FirstError(errs) ==
    CASE "Overrun" \in errs -> "Overrun"
      [] "Framing" \in errs -> "Framing"
      [] "Parity" \in errs -> "Parity"
      [] "Noise" \in errs -> "Noise"
      [] OTHER -> "Break"

\* mutant: Rx::read returning the word whenever one is ready
Rx_read_DataFirst ==
    IF rxbuf = <<>> THEN [NoRes EXCEPT !.kind = "WouldBlock"]
    ELSE [NoRes EXCEPT !.kind = "Word", !.word = rxbuf[1]]

\* Rx::read: the result of one poll
Rx_read ==
    IF rxbuf = <<>> THEN [NoRes EXCEPT !.kind = "WouldBlock"]
    ELSE IF rxerr # {}
         THEN [NoRes EXCEPT !.kind = "Error", !.err = FirstError(rxerr)]
         ELSE [NoRes EXCEPT !.kind = "Word", !.word = rxbuf[1]]

\* mutant: read leaving the error conditions of the word latched
read_KeepingErrors ==
    /\ IsEnabled
    /\ lastOp' = [op |-> "read", arg |-> NoArg, res |-> Rx_read]
    /\ IF rxbuf # <<>>
       THEN rxbuf' = <<>> /\ rxerr' = rxerr
       ELSE UNCHANGED <<rxbuf, rxerr>>
    /\ UNCHANGED <<handle, sysclk, clksel, regs, nvic, thr, tsr, lastEnable>>

read ==
    /\ IsEnabled
    /\ lastOp' = [op |-> "read", arg |-> NoArg, res |-> Rx_read]
    /\ IF rxbuf # <<>>
       THEN rxbuf' = <<>> /\ rxerr' = {}
       ELSE UNCHANGED <<rxbuf, rxerr>>
    /\ UNCHANGED <<handle, sysclk, clksel, regs, nvic, thr, tsr, lastEnable>>

\* Tx::write: the result of one call
Tx_write == IF thr = <<>> THEN "Ok" ELSE "WouldBlock"

\* Tx::flush: the result of one call
Tx_flush == IF thr = <<>> /\ tsr = <<>> THEN "Ok" ELSE "WouldBlock"

\* mutant: write storing the word whether or not the register is ready
write_Overwriting(WS) ==
    \E w \in WS :
        /\ IsEnabled
        /\ lastOp' = [op |-> "write", arg |-> w,
                      res |-> [NoRes EXCEPT !.kind = Tx_write]]
        /\ thr' = <<w>>
        /\ UNCHANGED <<handle, sysclk, clksel, regs, nvic, rxbuf,
                       rxerr, tsr, lastEnable>>

write(WS) ==
    \E w \in WS :
        /\ IsEnabled
        /\ lastOp' = [op |-> "write", arg |-> w,
                      res |-> [NoRes EXCEPT !.kind = Tx_write]]
        /\ thr' = IF Tx_write = "Ok" THEN <<w>> ELSE thr
        /\ UNCHANGED <<handle, sysclk, clksel, regs, nvic, rxbuf,
                       rxerr, tsr, lastEnable>>

\* mutant: flush reporting completion as soon as the holding register is
\* empty
flush_HoldingOnly ==
    /\ IsEnabled
    /\ lastOp' = [op |-> "flush", arg |-> NoArg,
                  res |-> [NoRes EXCEPT !.kind = Tx_write]]
    /\ UNCHANGED <<handle, sysclk, clksel, regs, nvic, rxtx, lastEnable>>

flush ==
    /\ IsEnabled
    /\ lastOp' = [op |-> "flush", arg |-> NoArg,
                  res |-> [NoRes EXCEPT !.kind = Tx_flush]]
    /\ UNCHANGED <<handle, sysclk, clksel, regs, nvic, rxtx, lastEnable>>

---------------------------------------------------------------------------
(* The USART hardware, running while its clock is on and it is enabled *)

Running == sysclk /\ cfg.enable = "ENABLED"

\* a word arrives: into the empty buffer with the error conditions of its
\* reception, or onto a full buffer, which is an overrun
HwReceive(WS, ES) ==
    \E w \in WS, e \in {{}} \cup {{k} : k \in ES} :
        /\ Running
        /\ IF rxbuf # <<>>
           THEN /\ rxerr' = rxerr \cup {"Overrun"}
                /\ UNCHANGED rxbuf
           ELSE /\ rxbuf' = <<w>>
                /\ rxerr' = rxerr \cup e
        /\ UNCHANGED <<handle, sysclk, clksel, regs, nvic, thr, tsr,
                       lastEnable, lastOp>>

\* the word in the holding register moves to the idle shift register
HwLoad ==
    /\ Running
    /\ thr # <<>> /\ tsr = <<>>
    /\ tsr' = thr /\ thr' = <<>>
    /\ UNCHANGED <<handle, sysclk, clksel, regs, nvic, rxbuf, rxerr,
                   lastEnable, lastOp>>

\* the word in the shift register has left on the line
HwShiftOut ==
    /\ Running
    /\ tsr # <<>>
    /\ tsr' = <<>>
    /\ UNCHANGED <<handle, sysclk, clksel, regs, nvic, rxbuf, rxerr,
                   thr, lastEnable, lastOp>>

\* an enabled interrupt source is active: the interrupt becomes pending
HwInterrupt ==
    /\ Running
    /\ \E s \in intenset : Stat(s)
    /\ nvicPending' = TRUE
    /\ UNCHANGED <<handle, sysclk, clksel, regs, nvicEnabled, rxtx,
                   lastEnable, lastOp>>

---------------------------------------------------------------------------
(* Specifications *)

Masks == SUBSET Sources

\* a step of the driver or of the hardware changes nothing outside them
Outside == UNCHANGED <<caller, swm, enabling, halves>>

\* the inputs of the configuration specification: every clock, every
\* setting and every mask; one word and one flag of each kind
ConfigFlags == {"TXRDY", "OVERRUNINT"}
ConfigWords == {0}

\* the inputs of the transfer specification: one clock, the default
\* settings and one mask; every word, every flag and every error
DefaultSettings == [datalen |-> "BIT_8", paritysel |-> "NO_PARITY",
                    stoplen |-> "BIT_1", clkpol |-> "FALLING_EDGE"]
TransferClocks == {[brgval |-> MaxBrgval, osrval |-> 15]}
TransferSettings == {DefaultSettings}
TransferMasks == {{"RXRDY"}}

\* every driver operation on the configuration inputs; of the hardware,
\* only the interrupt request
NextConfig ==
    \/ enable_async(Clocks, SettingsSet) /\ Outside
    \/ enable_sync_as_master(Clocks, SettingsSet) /\ Outside
    \/ enable_sync_as_slave(SettingsSet) /\ Outside
    \/ disable /\ Outside
    \/ is_flag_set(ConfigFlags) /\ Outside
    \/ enable_in_nvic /\ Outside
    \/ disable_in_nvic /\ Outside
    \/ clear_nvic_pending /\ Outside
    \/ enable_interrupts(Masks) /\ Outside
    \/ disable_interrupts(Masks) /\ Outside
    \/ free /\ Outside
    \/ read /\ Outside
    \/ write(ConfigWords) /\ Outside
    \/ flush /\ Outside
    \/ HwInterrupt /\ Outside

SpecConfig == Init /\ [][NextConfig]_vars

\* every driver operation on the transfer inputs, and the hardware
Next ==
    \/ enable_async(TransferClocks, TransferSettings) /\ Outside
    \/ enable_sync_as_master(TransferClocks, TransferSettings) /\ Outside
    \/ enable_sync_as_slave(TransferSettings) /\ Outside
    \/ disable /\ Outside
    \/ is_flag_set(Flags) /\ Outside
    \/ enable_in_nvic /\ Outside
    \/ disable_in_nvic /\ Outside
    \/ clear_nvic_pending /\ Outside
    \/ enable_interrupts(TransferMasks) /\ Outside
    \/ disable_interrupts(TransferMasks) /\ Outside
    \/ free /\ Outside
    \/ read /\ Outside
    \/ write(Words) /\ Outside
    \/ flush /\ Outside
    \/ HwReceive(Words, WordErrors) /\ Outside
    \/ HwLoad /\ Outside
    \/ HwShiftOut /\ Outside
    \/ HwInterrupt /\ Outside

Spec == Init /\ [][Next]_vars

---------------------------------------------------------------------------
(* The caller of the module example: enable_async, then bwrite_all *)

\* the buffers the caller sends: up to MaxMsg words
Msgs == UNION {[1..n -> Words] : n \in 1..MaxMsg}

InitCaller ==
    /\ new /\ swm_split /\ Idle /\ Whole
    /\ msg \in Msgs /\ pending = msg /\ accepted = <<>>
    /\ callerPc = "enable" /\ line = <<>>

\* p.USART0.enable_async(&clock_config, .., usart::Settings::default())
caller_enable_async ==
    /\ callerPc = "enable"
    /\ enable_async(TransferClocks, TransferSettings)
    /\ callerPc' = "bwrite_all"
    /\ UNCHANGED <<msg, pending, accepted, line, swm, enabling, halves>>

\* mutant: bwrite_all going on to the next word whatever write returned
bwrite_all_NoRetry ==
    /\ callerPc = "bwrite_all"
    /\ write({Head(pending)})
    /\ pending' = Tail(pending)
    /\ accepted' = IF lastOp'.res.kind = "Ok"
                   THEN Append(accepted, Head(pending)) ELSE accepted
    /\ callerPc' = IF Tail(pending) = <<>> THEN "bflush" ELSE "bwrite_all"
    /\ UNCHANGED <<msg, line, swm, enabling, halves>>

\* serial.bwrite_all(buffer): for each word, block!(self.write(word)).
\* One pass of the loop of block!: a write call, and the word is done with
\* when it returned Ok
bwrite_all ==
    /\ callerPc = "bwrite_all"
    /\ write({Head(pending)})
    /\ IF lastOp'.res.kind = "Ok"
       THEN /\ pending' = Tail(pending)
            /\ accepted' = Append(accepted, Head(pending))
            /\ callerPc' = IF Tail(pending) = <<>>
                           THEN "bflush" ELSE "bwrite_all"
       ELSE UNCHANGED <<pending, accepted, callerPc>>
    /\ UNCHANGED <<msg, line, swm, enabling, halves>>

\* serial.bflush(): block!(self.flush()); one pass of the loop
bflush ==
    /\ callerPc = "bflush"
    /\ flush
    /\ callerPc' = IF lastOp'.res.kind = "Ok" THEN "done" ELSE "bflush"
    /\ UNCHANGED <<msg, pending, accepted, line, swm, enabling, halves>>

\* the shift register puts its word on the line
HwShiftOutLine ==
    /\ HwShiftOut
    /\ line' = Append(line, tsr[1])
    /\ UNCHANGED <<msg, pending, accepted, callerPc, swm,
                   enabling, halves>>

NextCaller ==
    \/ caller_enable_async
    \/ bwrite_all
    \/ bflush
    \/ HwLoad /\ Outside
    \/ HwShiftOutLine
    \/ HwReceive(ConfigWords, {}) /\ Outside

\* the caller is the one execution context and its loops never wait for
\* anything but the result of the call; the transmitter runs by itself
\* while its clock is on
SpecCaller ==
    /\ InitCaller /\ [][NextCaller]_vars
    /\ WF_vars(caller_enable_async)
    /\ WF_vars(bwrite_all)
    /\ WF_vars(bflush)
    /\ WF_vars(HwLoad /\ Outside)
    /\ WF_vars(HwShiftOutLine)

---------------------------------------------------------------------------
(* The switch matrix functions of the instance, and the handle enabled *)
(* with them                                                           *)

\* Function<T, Unassigned>::assign(pin, swm): the function is routed to
\* the pin and comes back as Function<T, Assigned<Pin>>
swm_assign(f, pin) ==
    /\ swmFunction[f] = "Unassigned"
    /\ \A g \in Functions : pinassign[g] # pin
    /\ swmFunction' = [swmFunction EXCEPT ![f] = "Assigned"]
    /\ pinassign' = [pinassign EXCEPT ![f] = pin]
    /\ lastSwm' = [op |-> "assign", function |-> f, pin |-> pin]
    /\ UNCHANGED <<usart, caller, enabling, halves>>

\* mutant: unassign defined for a function in any state the caller holds
swm_unassign_AnyState(f) ==
    /\ swmFunction[f] \in {"Unassigned", "Assigned"}
    /\ swmFunction' = [swmFunction EXCEPT ![f] = "Unassigned"]
    /\ pinassign' = [pinassign EXCEPT ![f] = "none"]
    /\ lastSwm' = [op |-> "unassign", function |-> f, pin |-> pinassign[f]]
    /\ UNCHANGED <<usart, caller, enabling, halves>>

\* Function<T, Assigned<Pin>>::unassign(pin, swm): the function is taken
\* from its pin and comes back as Function<T, Unassigned>
swm_unassign(f) ==
    /\ swmFunction[f] = "Assigned"
    /\ swmFunction' = [swmFunction EXCEPT ![f] = "Unassigned"]
    /\ pinassign' = [pinassign EXCEPT ![f] = "none"]
    /\ lastSwm' = [op |-> "unassign", function |-> f, pin |-> pinassign[f]]
    /\ UNCHANGED <<usart, caller, enabling, halves>>

\* mutant: enable_* borrowing the functions and leaving them to the caller
Functions_moved_Borrowed(fs) ==
    /\ \A f \in fs : swmFunction[f] = "Assigned"
    /\ UNCHANGED <<swm, caller, enabling, halves>>

\* the arguments `_: swm::Function<I::.., swm::state::Assigned<..>>` of an
\* enable_* call: the functions are Assigned, and are moved into the call
Functions_moved(fs) ==
    /\ \A f \in fs : swmFunction[f] = "Assigned"
    /\ swmFunction' = [f \in Functions |->
                          IF f \in fs THEN "Moved" ELSE swmFunction[f]]
    /\ UNCHANGED <<pinassign, lastSwm, caller, enabling, halves>>

\* the functions each enable_* call takes
AsyncFunctions == {"U0_RXD", "U0_TXD"}
SyncFunctions == {"U0_RXD", "U0_TXD", "U0_SCLK"}

NextSwm ==
    \/ \E f \in Functions, pin \in Pins : swm_assign(f, pin)
    \/ \E f \in Functions : swm_unassign(f)
    \/ enable_async(TransferClocks, TransferSettings)
          /\ Functions_moved(AsyncFunctions)
    \/ enable_sync_as_master(TransferClocks, TransferSettings)
          /\ Functions_moved(SyncFunctions)
    \/ enable_sync_as_slave(TransferSettings)
          /\ Functions_moved(SyncFunctions)
    \/ disable /\ Outside
    \/ is_flag_set(ConfigFlags) /\ Outside
    \/ enable_in_nvic /\ Outside
    \/ disable_in_nvic /\ Outside
    \/ clear_nvic_pending /\ Outside
    \/ enable_interrupts(Masks) /\ Outside
    \/ disable_interrupts(Masks) /\ Outside
    \/ free /\ Outside
    \/ read /\ Outside
    \/ write(ConfigWords) /\ Outside
    \/ flush /\ Outside
    \/ HwInterrupt /\ Outside

SpecSwm == Init /\ [][NextSwm]_vars

---------------------------------------------------------------------------
(* The enable_* methods, access by access *)

\* mutant: the clock of the instance enabled at the end of the body
Steps_ClockLast(op) ==
    CASE op = "enable_async" ->
            <<"select", "ctl", "brg", "osr", "cfg", "enable_clock">>
      [] op = "enable_sync_as_master" ->
            <<"select", "ctl", "brg", "cfg", "enable_clock">>
      [] op = "enable_sync_as_slave" ->
            <<"select", "ctl", "cfg", "enable_clock">>

\* the accesses in the body of each enable_* method, in program order:
\* configure (syscon.enable_clock, C::select, ctl.modify), then the
\* writes of the method itself
Steps(op) ==
    CASE op = "enable_async" ->
            <<"enable_clock", "select", "ctl", "brg", "osr", "cfg">>
      [] op = "enable_sync_as_master" ->
            <<"enable_clock", "select", "ctl", "brg", "cfg">>
      [] op = "enable_sync_as_slave" ->
            <<"enable_clock", "select", "ctl", "cfg">>

\* the call in progress is about to make the access named
AtStep(name) ==
    /\ pc > 0 /\ pc <= Len(Steps(call.op))
    /\ Steps(call.op)[pc] = name

\* the access named has been made
Taken(name) ==
    /\ pc' = pc + 1
    /\ steps' = Append(steps, name)
    /\ UNCHANGED <<call, caller, swm, halves>>

\* an enable_* method is entered on a Disabled handle
Call(op, clock, C, settings) ==
    /\ pc = 0 /\ IsDisabled
    /\ pc' = 1
    /\ call' = [op |-> op, clock |-> clock, source |-> C,
                settings |-> settings, before |-> Regs(cfg, brg, osr)]
    /\ steps' = <<>>
    /\ UNCHANGED <<usart, caller, swm, halves>>

enable_async_call(CS, SS) ==
    \E clock \in CS, C \in ClockSources, settings \in SS :
        Call("enable_async", clock, C, settings)

enable_sync_as_master_call(CS, SS) ==
    \E clock \in CS, C \in ClockSources, settings \in SS :
        Call("enable_sync_as_master", clock, C, settings)

enable_sync_as_slave_call(SS) ==
    \E C \in ClockSources, settings \in SS :
        Call("enable_sync_as_slave", NoArg, C, settings)

\* syscon.enable_clock(&self.usart)
enable_clock_step ==
    /\ AtStep("enable_clock")
    /\ sysclk' = syscon_enable_clock(sysclk)
    /\ Taken("enable_clock")
    /\ UNCHANGED <<handle, clksel, regs, nvic, rxtx, lastEnable, lastOp>>

\* C::select(&self.usart, syscon)
select_step ==
    /\ AtStep("select")
    /\ clksel' = ClockSource_select(call.source, clksel)
    /\ Taken("select")
    /\ UNCHANGED <<handle, sysclk, regs, nvic, rxtx, lastEnable, lastOp>>

\* self.usart.ctl.modify(..)
ctl_modify_step ==
    /\ AtStep("ctl")
    /\ ctl' = configure_ctl(ctl)
    /\ Taken("ctl")
    /\ UNCHANGED <<handle, sysclk, clksel, cfg, brg, osr, intenset, nvic,
                   rxtx, lastEnable, lastOp>>

\* self.usart.brg.write(..)
brg_write_step ==
    /\ AtStep("brg")
    /\ brg' = call.clock.brgval
    /\ Taken("brg")
    /\ UNCHANGED <<handle, sysclk, clksel, cfg, ctl, osr, intenset, nvic,
                   rxtx, lastEnable, lastOp>>

\* self.usart.osr.write(..)
osr_write_step ==
    /\ AtStep("osr")
    /\ osr' = call.clock.osrval
    /\ Taken("osr")
    /\ UNCHANGED <<handle, sysclk, clksel, cfg, ctl, brg, intenset, nvic,
                   rxtx, lastEnable, lastOp>>

\* the closure of cfg.modify of the method named op
cfg_modify(op, w, settings) ==
    CASE op = "enable_async" -> cfg_async(w, settings)
      [] op = "enable_sync_as_master" -> cfg_sync_master(w, settings)
      [] op = "enable_sync_as_slave" -> cfg_sync_slave(w, settings)

\* mutant: cfg.modify writing the mode and the general bits only, the
\* line format being left for a later write
cfg_modify_step_ModeOnly ==
    /\ AtStep("cfg")
    /\ cfg' = [cfg_modify(call.op, cfg, call.settings)
                  EXCEPT !.datalen = cfg.datalen,
                         !.paritysel = cfg.paritysel,
                         !.stoplen = cfg.stoplen,
                         !.clkpol = cfg.clkpol]
    /\ Taken("cfg")
    /\ UNCHANGED <<handle, sysclk, clksel, ctl, brg, osr, intenset, nvic,
                   rxtx, lastEnable, lastOp>>

\* self.usart.cfg.modify(..)
cfg_modify_step ==
    /\ AtStep("cfg")
    /\ cfg' = cfg_modify(call.op, cfg, call.settings)
    /\ Taken("cfg")
    /\ UNCHANGED <<handle, sysclk, clksel, ctl, brg, osr, intenset, nvic,
                   rxtx, lastEnable, lastOp>>

\* USART { rx: Rx::new(), tx: Tx::new(), usart: self.usart }: the method
\* returns the Enabled handle
return_step ==
    /\ pc > 0 /\ pc = Len(Steps(call.op)) + 1
    /\ Enabled(call.op, call.settings)
    /\ lastOp' = [op |-> call.op,
                  arg |-> IF call.op = "enable_sync_as_slave"
                          THEN [source |-> call.source,
                                settings |-> call.settings]
                          ELSE [clock |-> call.clock,
                                source |-> call.source,
                                settings |-> call.settings],
                  res |-> NoRes]
    /\ pc' = 0 /\ call' = NoCall
    /\ UNCHANGED <<sysclk, clksel, regs, nvic, rxtx, steps, caller, swm,
                   halves>>

\* the settings of the calls: the default, and one that differs from it
\* in the word length and the stop bits
StepSettings ==
    {DefaultSettings,
     [DefaultSettings EXCEPT !.datalen = "BIT_9", !.stoplen = "BIT_2"]}

\* a method of the handle is called when no other call is in progress
Ready == pc = 0 /\ Outside

\* the hardware runs whether or not a call is in progress
NextSteps ==
    \/ enable_async_call(TransferClocks, StepSettings)
    \/ enable_sync_as_master_call(TransferClocks, StepSettings)
    \/ enable_sync_as_slave_call(StepSettings)
    \/ enable_clock_step
    \/ select_step
    \/ ctl_modify_step
    \/ brg_write_step
    \/ osr_write_step
    \/ cfg_modify_step
    \/ return_step
    \/ disable /\ Ready
    \/ is_flag_set(ConfigFlags) /\ Ready
    \/ enable_in_nvic /\ Ready
    \/ disable_in_nvic /\ Ready
    \/ clear_nvic_pending /\ Ready
    \/ enable_interrupts(TransferMasks) /\ Ready
    \/ disable_interrupts(TransferMasks) /\ Ready
    \/ free /\ Ready
    \/ read /\ Ready
    \/ write(ConfigWords) /\ Ready
    \/ flush /\ Ready
    \/ HwReceive(ConfigWords, {}) /\ Outside
    \/ HwLoad /\ Outside
    \/ HwShiftOut /\ Outside
    \/ HwInterrupt /\ Outside

SpecSteps == Init /\ [][NextSteps]_vars

---------------------------------------------------------------------------
(* The rx and tx fields moved out of an Enabled handle and used from two *)
(* contexts, register access by register access                          *)

\* let rx = usart.rx; let tx = usart.tx: the public fields are moved out,
\* after which no method of the handle can be called
move_out ==
    /\ IsEnabled /\ rx.pc = "handle" /\ tx.pc = "handle"
    /\ rx' = [rx EXCEPT !.pc = "idle"]
    /\ tx' = [tx EXCEPT !.pc = "idle"]
    /\ UNCHANGED <<usart, caller, swm, enabling>>

\* Rx::read, first access: the status is read; with no word ready the
\* call returns would-block
rx_read_stat ==
    /\ rx.pc = "idle"
    /\ rx' = IF Stat("RXRDY")
             THEN [rx EXCEPT !.pc = "data", !.op = "read"]
             ELSE [rx EXCEPT !.op = "read",
                             !.res = [NoRes EXCEPT !.kind = "WouldBlock"]]
    /\ UNCHANGED <<usart, caller, swm, enabling, tx>>

\* Rx::read, second access: the data register is read with the error
\* conditions of the word, and the call returns
rx_read_data ==
    /\ rx.pc = "data"
    /\ rx' = [rx EXCEPT !.pc = "idle", !.res = Rx_read]
    /\ rxbuf' = <<>> /\ rxerr' = {}
    /\ UNCHANGED <<handle, sysclk, clksel, regs, nvic, thr, tsr,
                   lastEnable, lastOp, caller, swm, enabling, tx>>

\* Tx::write, first access: the status is read; with the holding register
\* not ready the call returns would-block
tx_write_stat(WS) ==
    \E w \in WS :
        /\ tx.pc = "idle"
        /\ tx' = IF Tx_write = "Ok"
                 THEN [tx EXCEPT !.pc = "data", !.op = "write", !.word = w]
                 ELSE [tx EXCEPT !.op = "write", !.word = w,
                                 !.res = [NoRes EXCEPT !.kind = Tx_write]]
        /\ UNCHANGED <<usart, caller, swm, enabling, rx>>

\* Tx::write, second access: the word is written to the data register,
\* and the call returns
tx_write_data ==
    /\ tx.pc = "data"
    /\ thr' = <<tx.word>>
    /\ tx' = [tx EXCEPT !.pc = "idle", !.res = [NoRes EXCEPT !.kind = "Ok"]]
    /\ UNCHANGED <<handle, sysclk, clksel, regs, nvic, rxbuf, rxerr, tsr,
                   lastEnable, lastOp, caller, swm, enabling, rx>>

\* mutant: flush resetting the latched status flags
tx_flush_ClearingErrors ==
    /\ tx.pc = "idle"
    /\ tx' = [tx EXCEPT !.op = "flush", !.word = 0,
                        !.res = [NoRes EXCEPT !.kind = Tx_flush]]
    /\ rxerr' = {}
    /\ UNCHANGED <<handle, sysclk, clksel, regs, nvic, rxbuf, thr, tsr,
                   lastEnable, lastOp, caller, swm, enabling, rx>>

\* Tx::flush: the status is read, and the call returns
tx_flush ==
    /\ tx.pc = "idle"
    /\ tx' = [tx EXCEPT !.op = "flush", !.word = 0,
                        !.res = [NoRes EXCEPT !.kind = Tx_flush]]
    /\ UNCHANGED <<usart, caller, swm, enabling, rx>>

\* the handle is enabled and its fields are moved out; then the two
\* contexts and the hardware run in any order
NextSplit ==
    \/ enable_async(TransferClocks, TransferSettings) /\ Outside
    \/ enable_sync_as_master(TransferClocks, TransferSettings) /\ Outside
    \/ enable_sync_as_slave(TransferSettings) /\ Outside
    \/ move_out
    \/ rx_read_stat
    \/ rx_read_data
    \/ tx_write_stat(Words)
    \/ tx_write_data
    \/ tx_flush
    \/ HwReceive(Words, WordErrors) /\ Outside
    \/ HwLoad /\ Outside
    \/ HwShiftOut /\ Outside

SpecSplit == Init /\ [][NextSplit]_vars

---------------------------------------------------------------------------
(* Claims *)

EnableOps == {"enable_async", "enable_sync_as_master", "enable_sync_as_slave"}
SyncOps == {"enable_sync_as_master", "enable_sync_as_slave"}
EnabledOps == {"disable", "is_flag_set", "enable_interrupts",
               "disable_interrupts", "enable_in_nvic", "disable_in_nvic",
               "clear_nvic_pending", "read", "write", "flush"}

\* a step that is a driver call which left a new record in lastOp
Called(op) == lastOp' # lastOp /\ lastOp'.op = op
CalledIn(ops) == lastOp' # lastOp /\ lastOp'.op \in ops

\* C1: an enable_* call is taken only from the Disabled state, and disable,
\* is_flag_set, enable_interrupts, disable_interrupts, enable_in_nvic,
\* disable_in_nvic, clear_nvic_pending, read, write and flush only from the
\* Enabled state; every call that is taken ends in the state its return
\* type names, and none has a wrong-state error among its results.
C1_Typestate ==
    /\ [][/\ CalledIn(EnableOps) => state = "Disabled" /\ state' = "Enabled"
          /\ CalledIn(EnabledOps) => state = "Enabled"
          /\ CalledIn(EnabledOps \ {"disable"}) => state' = "Enabled"
          /\ Called("disable") => state' = "Disabled"]_vars
    /\ [](/\ lastOp.op \in EnableOps \cup (EnabledOps \ {"disable"})
             => state = "Enabled"
          /\ lastOp.op = "disable" => state = "Disabled"
          /\ lastOp.op \in EnableOps \cup {"disable"}
             => lastOp.res.kind = "unit"
          /\ lastOp.op = "read"
             => lastOp.res.kind \in {"WouldBlock", "Error", "Word"}
          /\ lastOp.op = "read" /\ lastOp.res.kind = "Error"
             => lastOp.res.err \in Errors
          /\ lastOp.op \in {"write", "flush"}
             => lastOp.res.kind \in {"WouldBlock", "Ok"})

\* C1 witness: the handle was enabled, used, disabled and enabled again,
\* and a read has been taken on it
C1_Witness ==
    /\ lastOp.op = "read" /\ state = "Enabled"
    /\ lastEnable = "enable_sync_as_master"
    /\ cfg.syncmst = "MASTER" /\ nvicEnabled /\ thr # <<>>

\* the registers the last enable_* call leaves on a freshly reset peripheral
FreshRegs ==
    CASE lastOp.op = "enable_async" ->
            enable_async_regs(ResetRegs, lastOp.arg.clock,
                              lastOp.arg.settings)
      [] lastOp.op = "enable_sync_as_master" ->
            enable_sync_as_master_regs(ResetRegs, lastOp.arg.clock,
                                       lastOp.arg.settings)
      [] lastOp.op = "enable_sync_as_slave" ->
            enable_sync_as_slave_regs(ResetRegs, lastOp.arg.settings)

\* the line-format fields of a CFG value
Format(w) == <<w.datalen, w.paritysel, w.stoplen, w.clkpol>>

\* a step that is an enable_* call, a step that is a disable call
EnableStep == state = "Disabled" /\ state' = "Enabled"
DisableStep == state = "Enabled" /\ state' = "Disabled"

\* C2 as stated: after every enable_* call (so also after enable_*, disable,
\* enable_*) the mode select, the master/slave select, the divisor, the
\* oversample value and the line format are those the same call leaves on a
\* freshly reset peripheral.
C2_NoResidual ==
    lastOp.op \in EnableOps =>
        /\ cfg.syncen = FreshRegs.cfg.syncen
        /\ cfg.syncmst = FreshRegs.cfg.syncmst
        /\ brg = FreshRegs.brg
        /\ osr = FreshRegs.osr
        /\ Format(cfg) = Format(FreshRegs.cfg)

\* C2 amended: after every enable_* call the fields that call writes (the
\* whole of CFG but the master/slave select after enable_async; the divisor
\* after enable_async and enable_sync_as_master; the oversample value after
\* enable_async) are those the call leaves on a freshly reset peripheral,
\* and the fields it does not write hold what they held before the call.
C2_WrittenFieldsOnly ==
    /\ [](lastOp.op \in EnableOps =>
            /\ [cfg EXCEPT !.syncmst = "SLAVE"]
               = [FreshRegs.cfg EXCEPT !.syncmst = "SLAVE"]
            /\ lastOp.op \in SyncOps => cfg.syncmst = FreshRegs.cfg.syncmst
            /\ lastOp.op # "enable_sync_as_slave" => brg = FreshRegs.brg
            /\ lastOp.op = "enable_async" => osr = FreshRegs.osr)
    /\ [][EnableStep =>
            /\ lastOp'.op = "enable_async" => cfg'.syncmst = cfg.syncmst
            /\ lastOp'.op = "enable_sync_as_master" => osr' = osr
            /\ lastOp'.op = "enable_sync_as_slave"
               => brg' = brg /\ osr' = osr]_vars

\* C2 witness: enable_async has followed a synchronous master session with
\* other settings, and the master/slave select still reads master
C2_Witness ==
    /\ lastOp.op = "enable_async"
    /\ cfg.syncmst = "MASTER"
    /\ lastOp.arg.settings # DefaultSettings
    /\ Format(cfg) = Format(FreshRegs.cfg)

\* the sync/async select an enable_* call names
SyncenOf(op) ==
    IF op \in SyncOps THEN "SYNCHRONOUS_MODE" ELSE "ASYNCHRONOUS_MODE"

\* C3: while the handle is Enabled the clock of the instance is enabled at
\* SYSCON, the enable bit of CFG is set and the sync/async select is the one
\* of the most recent enable_* call; no step between two Enabled states
\* changes the Word or the Mode of the handle.
C3_EnabledInvariant ==
    /\ [](state = "Enabled" =>
            /\ sysclk
            /\ cfg.enable = "ENABLED"
            /\ lastEnable \in EnableOps
            /\ cfg.syncen = SyncenOf(lastEnable))
    /\ [][state = "Enabled" /\ state' = "Enabled"
            => word' = word /\ mode' = mode /\ lastEnable' = lastEnable]_vars

\* C3 witness: an Enabled synchronous handle with 16-bit words, in use
C3_Witness ==
    /\ state = "Enabled" /\ lastEnable = "enable_sync_as_slave"
    /\ word = "u16" /\ lastOp.op = "write" /\ intenset # {}

C5_CfgAfterEnable ==
    lastOp.op \in EnableOps =>
        /\ cfg.enable = "ENABLED"
        /\ cfg.ctsen = "DISABLED"
        /\ cfg.loop = "NORMAL"
        /\ cfg.autoaddr = "ENABLED"
        /\ cfg.datalen = lastOp.arg.settings.datalen
        /\ cfg.paritysel = lastOp.arg.settings.paritysel
        /\ cfg.stoplen = lastOp.arg.settings.stoplen
        /\ cfg.clkpol = lastOp.arg.settings.clkpol
        /\ lastOp.op = "enable_async" => cfg.syncen = "ASYNCHRONOUS_MODE"
        /\ lastOp.op = "enable_sync_as_master"
           => cfg.syncen = "SYNCHRONOUS_MODE" /\ cfg.syncmst = "MASTER"
        /\ lastOp.op = "enable_sync_as_slave"
           => cfg.syncen = "SYNCHRONOUS_MODE" /\ cfg.syncmst = "SLAVE"

\* C5 witness: enable_sync_as_master with settings other than the default,
\* on a peripheral an earlier session has used
C5_Witness ==
    /\ lastOp.op = "enable_sync_as_master"
    /\ lastOp.arg.settings.datalen = "BIT_9"
    /\ lastOp.arg.settings.paritysel = "EVEN_PARITY"
    /\ nvicEnabled /\ cfg.datalen = "BIT_9"

\* C6: enable_async writes BRG from clock.brgval and OSR from clock.osrval;
\* enable_sync_as_master writes BRG from clock.brgval and leaves OSR as it
\* was; enable_sync_as_slave leaves BRG and OSR as they were.
C6_BaudByMode ==
    [][EnableStep =>
        /\ lastOp'.op \in EnableOps
        /\ lastOp'.op = "enable_async"
           => brg' = lastOp'.arg.clock.brgval
              /\ osr' = lastOp'.arg.clock.osrval
        /\ lastOp'.op = "enable_sync_as_master"
           => brg' = lastOp'.arg.clock.brgval /\ osr' = osr
        /\ lastOp'.op = "enable_sync_as_slave"
           => brg' = brg /\ osr' = osr]_vars

\* C6 witness: enable_sync_as_master has written the divisor and left an
\* oversample value that is neither its clock's nor the reset value
C6_Witness ==
    /\ lastOp.op = "enable_sync_as_master"
    /\ brg = lastOp.arg.clock.brgval
    /\ osr # lastOp.arg.clock.osrval /\ osr # 15

\* C7: disable turns the clock gate of the instance off and returns a
\* Disabled handle, and leaves CFG (its enable bit too), BRG, OSR, CTL, the
\* interrupt enable bits, the NVIC entry, the clock select and the receiver
\* and transmitter as they were.
C7_DisableFrame ==
    [][DisableStep =>
        /\ lastOp'.op = "disable"
        /\ ~sysclk'
        /\ UNCHANGED <<cfg, brg, osr, ctl, intenset, nvicEnabled,
                       nvicPending, clksel, rxbuf, rxerr, thr, tsr>>]_vars

\* C7 witness: a disabled handle whose peripheral still holds the
\* configuration, interrupt enables and NVIC unmasking of its session
C7_Witness ==
    /\ lastOp.op = "disable" /\ state = "Disabled" /\ ~sysclk
    /\ cfg.enable = "ENABLED" /\ cfg.syncen = "SYNCHRONOUS_MODE"
    /\ intenset # {} /\ nvicEnabled /\ nvicPending

\* C8: enable_interrupts(mask) sets the enable bit of every source of the
\* mask and disable_interrupts(mask) clears it, and each leaves the enable
\* bit of every source outside its mask as it was; so a source enabled
\* earlier stays enabled when another source is disabled.
C8_SelectiveMask ==
    [][/\ Called("enable_interrupts") =>
            \A s \in Sources :
                IF s \in lastOp'.arg THEN s \in intenset'
                ELSE s \in intenset' <=> s \in intenset
       /\ Called("disable_interrupts") =>
            \A s \in Sources :
                IF s \in lastOp'.arg THEN s \notin intenset'
                ELSE s \in intenset' <=> s \in intenset]_vars

\* C8 witness: disable_interrupts of TXRDY alone has left RXRDY enabled
C8_Witness ==
    /\ lastOp.op = "disable_interrupts" /\ lastOp.arg = {"TXRDY"}
    /\ intenset = {"RXRDY"}

\* C9: enable_in_nvic unmasks, disable_in_nvic masks and clear_nvic_pending
\* unpends the interrupt of the instance at the NVIC, each leaving the other
\* NVIC bit, the interrupt enable bits of the USART and its status flags as
\* they were; enable_interrupts and disable_interrupts leave the NVIC mask
\* and pending bit as they were.
C9_NvicFrame ==
    [][/\ Called("enable_in_nvic")
          => nvicEnabled' /\ UNCHANGED nvicPending
       /\ Called("disable_in_nvic")
          => ~nvicEnabled' /\ UNCHANGED nvicPending
       /\ Called("clear_nvic_pending")
          => ~nvicPending' /\ UNCHANGED nvicEnabled
       /\ CalledIn({"enable_in_nvic", "disable_in_nvic",
                    "clear_nvic_pending"})
          => UNCHANGED <<intenset, rxbuf, rxerr, thr, tsr>>
       /\ CalledIn({"enable_interrupts", "disable_interrupts"})
          => UNCHANGED <<nvicEnabled, nvicPending>>]_vars

\* C9 witness: disable_in_nvic has masked the interrupt while it is pending,
\* a source is enabled and an error flag is latched
C9_Witness ==
    /\ lastOp.op = "disable_in_nvic" /\ ~nvicEnabled /\ nvicPending
    /\ intenset # {} /\ rxerr # {}

C11_WriteOutcome ==
    /\ [][/\ Called("write") =>
                /\ state = "Enabled"
                /\ lastOp'.res.kind \in {"Ok", "WouldBlock"}
                /\ lastOp'.res.err = NoRes.err
                /\ lastOp'.res.kind = "Ok"
                      => thr = <<>> /\ thr' = <<lastOp'.arg>>
                /\ lastOp'.res.kind = "WouldBlock"
                      => thr # <<>> /\ thr' = thr
                /\ UNCHANGED <<tsr, rxbuf, rxerr, regs>>
          /\ (thr' # thr /\ thr' # <<>>) =>
                /\ thr = <<>>
                /\ lastOp'.op = "write" /\ lastOp'.res.kind = "Ok"
                /\ thr' = <<lastOp'.arg>>
          /\ (thr' # thr /\ thr' = <<>>) => tsr = <<>> /\ tsr' = thr]_vars
    /\ [](lastOp.op = "write" => lastOp.res.kind \in {"Ok", "WouldBlock"})

\* C11 witness: a write of another word returned would-block while the
\* word accepted earlier is still in the holding register
C11_Witness ==
    /\ lastOp.op = "write" /\ lastOp.res.kind = "WouldBlock"
    /\ state = "Enabled" /\ thr # <<>> /\ thr[1] # lastOp.arg
    /\ tsr # <<>>

\* C12: a flush call returns ok only when no accepted word is left in the
\* holding register or in the shift register, and would-block whenever one
\* is; it changes neither register.  In the state a successful write
\* leaves, and in every state from there until the word has been shifted
\* out, a flush returns would-block.
C12_FlushOutcome ==
    [][/\ Called("flush") =>
             /\ lastOp'.res.kind \in {"Ok", "WouldBlock"}
             /\ lastOp'.res.kind = "Ok" <=> (thr = <<>> /\ tsr = <<>>)
             /\ lastOp'.res.kind = "WouldBlock"
                   <=> (thr # <<>> \/ tsr # <<>>)
             /\ UNCHANGED <<thr, tsr>>
       /\ (Called("write") /\ lastOp'.res.kind = "Ok")
             => Tx_flush' = "WouldBlock"
       /\ (Tx_flush = "WouldBlock" /\ Tx_flush' = "Ok")
             => thr = <<>> /\ tsr # <<>> /\ tsr' = <<>>]_vars

\* C12 witness: a flush returned would-block while the accepted word had
\* left the holding register and was still in the shift register
C12_Witness ==
    /\ lastOp.op = "flush" /\ lastOp.res.kind = "WouldBlock"
    /\ state = "Enabled" /\ thr = <<>> /\ tsr # <<>>

\* the words the transmitter holds, oldest first
InFlight == tsr \o thr

\* C13: after enable_async with 8-bit words, a caller that hands the words
\* of a buffer to write one at a time, calling write again for a word that
\* got would-block, and then calls flush until it returns ok, has each word
\* accepted once and in the order of the buffer, and does see flush return
\* ok, given that the transmitter keeps moving words out; the words are
\* then on the line, in order.
C13_AllAccepted ==
    /\ [](/\ accepted \o pending = msg
          /\ line \o InFlight = accepted
          /\ callerPc \in {"bwrite_all", "bflush", "done"}
                => state = "Enabled" /\ word = "u8" /\ mode = "AsyncMode"
          /\ callerPc \in {"bflush", "done"} => accepted = msg
          /\ callerPc = "done" => line = msg /\ InFlight = <<>>)
    /\ (callerPc = "enable") ~> (callerPc = "bwrite_all")
    /\ \A q \in Msgs :
          (callerPc = "bwrite_all" /\ pending = q)
             ~> (callerPc = "done" /\ accepted = msg /\ line = msg)

\* C13 witness: the caller has sent a buffer of the greatest length, with
\* different words in it, and flush has returned ok
C13_Witness ==
    /\ callerPc = "done" /\ Len(msg) = MaxMsg /\ msg[1] # msg[2]
    /\ accepted = msg /\ line = msg
    /\ lastOp.op = "flush" /\ lastOp.res.kind = "Ok"

C15_FlagQuery ==
    [][/\ \A f \in Flags : (Called("is_flag_set") /\ lastOp'.arg = f) =>
             /\ lastOp'.res.kind = "bool"
             /\ lastOp'.res.flag = Stat(f)
             /\ f \in ErrorFlags => ~Stat(f)'
             /\ f \notin ErrorFlags => Stat(f)' = Stat(f)
             /\ \A g \in Flags \ {f} : Stat(g)' = Stat(g)
             /\ UNCHANGED <<handle, sysclk, clksel, regs, nvic, rxbuf,
                            thr, tsr>>
       /\ Called("is_flag_set") => lastOp'.arg \in Flags
       /\ (rxerr' # rxerr /\ rxerr' \subseteq rxerr /\ rxbuf' = rxbuf) =>
             /\ lastOp'.op = "is_flag_set" /\ lastOp'.res.flag
             /\ lastOp'.arg \in ErrorFlags
             /\ rxerr' = rxerr \ {FlagError(lastOp'.arg)}]_vars

\* C15 witness: is_flag_set found the framing error flag set and reset it,
\* while the overrun flag, set as well, is still set
C15_Witness ==
    /\ lastOp.op = "is_flag_set" /\ lastOp.arg = "FRAMERRINT"
    /\ lastOp.res.flag
    /\ ~Stat("FRAMERRINT") /\ Stat("OVERRUNINT") /\ Stat("RXRDY")

\* C16: free can be called on a Disabled and on an Enabled handle; it
\* writes no register, leaves the clock gate, the clock selection and the
\* NVIC as they are, and consumes the handle: once freed the handle stays
\* freed, and no enable_*, disable, read, write, flush, flag or interrupt
\* call is taken after the free.
C16_Free ==
    /\ [](/\ state \in {"Disabled", "Enabled"} => ENABLED (free /\ Outside)
          /\ state = "Freed" => lastOp.op = "free")
    /\ [][/\ Called("free") =>
                /\ state \in {"Disabled", "Enabled"} /\ state' = "Freed"
                /\ UNCHANGED <<sysclk, clksel, regs, nvic, rxtx>>
          /\ state' = "Freed" /\ state # "Freed" => lastOp'.op = "free"
          /\ state = "Freed" => state' = "Freed" /\ lastOp' = lastOp]_vars

\* C16 witness: an Enabled handle was freed with interrupts enabled and a
\* word in the holding register; clock, configuration and word are as
\* they were
C16_Witness ==
    /\ state = "Freed" /\ lastOp.op = "free"
    /\ sysclk /\ cfg.enable = "ENABLED" /\ lastEnable = "enable_async"
    /\ intenset # {} /\ nvicEnabled /\ thr # <<>>

\* C17: unassign can be called on a switch matrix function exactly while
\* the function is Assigned, and assign only while it is Unassigned: on a
\* function that is Unassigned, as after an unassign, no unassign call is
\* possible.  Each assign takes the function from Unassigned to Assigned
\* and each unassign from Assigned to Unassigned, so that the two
\* alternate on every function.
C17_UnassignAssigned ==
    /\ [](\A f \in Functions :
            /\ (ENABLED swm_unassign(f)) <=> swmFunction[f] = "Assigned"
            /\ (ENABLED (\E pin \in Pins : swm_assign(f, pin)))
                  => swmFunction[f] = "Unassigned"
            /\ swmFunction[f] = "Unassigned" <=> pinassign[f] = "none"
            /\ (lastSwm.function = f /\ lastSwm.op = "unassign")
                  => swmFunction[f] = "Unassigned"
            /\ (lastSwm.function = f /\ lastSwm.op = "assign")
                  => swmFunction[f] \in {"Assigned", "Moved"})
    /\ [][\A f \in Functions :
            /\ (lastSwm' # lastSwm /\ lastSwm'.function = f
                /\ lastSwm'.op = "assign")
                  => /\ swmFunction[f] = "Unassigned"
                     /\ swmFunction'[f] = "Assigned"
                     /\ pinassign'[f] = lastSwm'.pin
            /\ (lastSwm' # lastSwm /\ lastSwm'.function = f
                /\ lastSwm'.op = "unassign")
                  => /\ swmFunction[f] = "Assigned"
                     /\ swmFunction'[f] = "Unassigned"
                     /\ pinassign[f] = lastSwm'.pin
            /\ swmFunction'[f] # swmFunction[f]
                  => <<swmFunction[f], swmFunction'[f]>> \in
                        {<<"Unassigned", "Assigned">>,
                         <<"Assigned", "Unassigned">>,
                         <<"Assigned", "Moved">>}]_vars

\* C17 witness: U0_RXD was assigned to PIO0_0 and unassigned again; a
\* second unassign is not possible
C17_Witness ==
    /\ lastSwm = [op |-> "unassign", function |-> "U0_RXD",
                  pin |-> "PIO0_0"]
    /\ swmFunction["U0_RXD"] = "Unassigned"
    /\ ~ENABLED swm_unassign("U0_RXD")

\* the functions the enable_* call named op takes
FunctionsOf(op) == IF op = "enable_async" THEN AsyncFunctions
                   ELSE SyncFunctions

\* C19: an enable_* call is taken only when the RX and TX functions, and
\* for the two synchronous modes the SCLK function, are Assigned, and it
\* takes them from the caller.  In every state where the handle is
\* Enabled each of these functions is routed to a pin and no unassign of
\* it is possible; no step changes the routing of a function the handle
\* was enabled with while the handle is Enabled.
C19_FunctionsAssigned ==
    /\ [](state = "Enabled" =>
            \A f \in FunctionsOf(lastEnable) :
                /\ pinassign[f] \in Pins
                /\ swmFunction[f] = "Moved"
                /\ ~ENABLED swm_unassign(f))
    /\ [][/\ EnableStep =>
                \A f \in FunctionsOf(lastEnable') :
                    /\ swmFunction[f] = "Assigned" /\ pinassign[f] \in Pins
                    /\ swmFunction'[f] = "Moved"
                    /\ pinassign'[f] = pinassign[f]
          /\ (state = "Enabled" /\ state' = "Enabled") =>
                \A f \in FunctionsOf(lastEnable) :
                    pinassign'[f] = pinassign[f]]_vars

\* C19 witness: the handle was enabled in asynchronous mode and has been
\* written to; the SCLK function, which that call does not take, has
\* since been assigned and unassigned, and RX and TX are where they were
C19_Witness ==
    /\ state = "Enabled" /\ lastEnable = "enable_async"
    /\ lastOp.op = "write"
    /\ lastSwm.op = "unassign" /\ lastSwm.function = "U0_SCLK"
    /\ pinassign["U0_RXD"] = "PIO0_0" /\ pinassign["U0_TXD"] = "PIO0_4"

\* the accesses of the log that are the one named
Count(log, name) == Cardinality({i \in DOMAIN log : log[i] = name})

\* CFG value w carries the whole configuration of the call op(settings)
CfgWritten(op, settings, w) ==
    /\ w.syncen = SyncenOf(op)
    /\ op = "enable_sync_as_master" => w.syncmst = "MASTER"
    /\ op = "enable_sync_as_slave" => w.syncmst = "SLAVE"
    /\ w.enable = "ENABLED"
    /\ w.ctsen = "DISABLED" /\ w.loop = "NORMAL" /\ w.autoaddr = "ENABLED"
    /\ Format(w) = Format(settings)

\* C18: CFG changes only in the cfg.modify access of an enable_* call, and
\* the value written there has the mode bits, the enable bit, the
\* flow-control, loopback and auto-address bits and the format of the
\* settings all at once.  While a call is in progress CFG is what it was
\* at the call until that access and the whole new configuration after
\* it; a call makes the access once.
C18_SingleCfgWrite ==
    /\ [][cfg' # cfg =>
            /\ AtStep("cfg")
            /\ CfgWritten(call.op, call.settings, cfg')]_vars
    /\ [](pc > 0 =>
            /\ Count(steps, "cfg") = 0 => cfg = call.before.cfg
            /\ Count(steps, "cfg") > 0
                  => /\ CfgWritten(call.op, call.settings, cfg)
                     /\ pc = Len(Steps(call.op)) + 1)
    /\ [](Count(steps, "cfg") <= 1)
    /\ [][(pc > 0 /\ pc' = 0) =>
            /\ Count(steps, "cfg") = 1
            /\ state' = "Enabled"
            /\ CfgWritten(call.op, call.settings, cfg')]_vars

\* C18 witness: enable_async is in progress on a peripheral left in
\* synchronous mode with another format; BRG and OSR are written, CFG is
\* not yet, and holds the earlier configuration unchanged
C18_Witness ==
    /\ pc > 0 /\ call.op = "enable_async"
    /\ steps = <<"enable_clock", "select", "ctl", "brg", "osr">>
    /\ cfg = call.before.cfg /\ cfg.enable = "ENABLED"
    /\ cfg.syncen = "SYNCHRONOUS_MODE"
    /\ Format(cfg) # Format(call.settings)

\* the place of an access in the order of C20; the two baud registers
\* share a place
Rank(name) ==
    CASE name = "enable_clock" -> 1
      [] name = "select" -> 2
      [] name = "ctl" -> 3
      [] name \in {"brg", "osr"} -> 4
      [] name = "cfg" -> 5

\* the accesses that write a register of the USART
RegisterWrites == {"ctl", "brg", "osr", "cfg"}

\* the accesses a complete call of op has made
AccessesOf(op) ==
    {"enable_clock", "select", "ctl", "cfg"}
       \cup (IF op = "enable_sync_as_slave" THEN {} ELSE {"brg"})
       \cup (IF op = "enable_async" THEN {"osr"} ELSE {})

\* C20: the accesses of an enable_* call come in the order clock enabled
\* at SYSCON, clock source selected, CTL set to its defaults (break off,
\* address detection disabled, transmitter not disabled, auto-baud
\* disabled), baud registers written, CFG written, each made once, and a
\* call that returns has made all of its own.  Hence in any run of
\* enable_*, disable and the methods of the Enabled handle, every write
\* of the driver to a register of the USART is made with the clock of the
\* instance enabled.
C20_StepOrder ==
    /\ [](/\ \A i, j \in DOMAIN steps :
                i < j => /\ Rank(steps[i]) <= Rank(steps[j])
                         /\ steps[i] # steps[j]
          /\ (pc = 0 /\ state = "Enabled")
                => {steps[i] : i \in DOMAIN steps} = AccessesOf(lastEnable))
    /\ [][/\ (steps' # steps /\ steps' # <<>>) =>
                /\ steps' = Append(steps, steps'[Len(steps')])
                /\ steps'[Len(steps')] \in RegisterWrites
                      => sysclk /\ clksel = call.source
                /\ steps'[Len(steps')] = "enable_clock" => sysclk'
                /\ steps'[Len(steps')] = "ctl" =>
                      /\ ctl'.txbrken = "NORMAL"
                      /\ ctl'.addrdet = "DISABLED"
                      /\ ctl'.txdis = "ENABLED"
                      /\ ctl'.autobaud = "DISABLED"
          /\ <<cfg, ctl, brg, osr>>' # <<cfg, ctl, brg, osr>>
                => sysclk /\ steps' # steps
          /\ CalledIn(EnabledOps) => sysclk
          /\ (intenset' # intenset \/ (thr' # thr /\ thr' # <<>>)) => sysclk
          /\ ~sysclk' /\ sysclk => Called("disable")]_vars

\* C20 witness: a handle enabled as synchronous master, disabled, enabled
\* again in asynchronous mode and then written to; the second call made
\* its six accesses in order
C20_Witness ==
    /\ pc = 0 /\ state = "Enabled" /\ lastEnable = "enable_async"
    /\ cfg.syncmst = "MASTER"
    /\ steps = <<"enable_clock", "select", "ctl", "brg", "osr", "cfg">>
    /\ lastOp.op = "write" /\ sysclk /\ thr # <<>>

\* a register access of the context that holds rx, of the one that holds tx
RxAccess == rx.pc # "handle" /\ rx' # rx
TxAccess == tx.pc # "handle" /\ tx' # tx

\* C21: with rx and tx moved out of an Enabled handle and used from two
\* contexts whose register accesses interleave in any order, an access of
\* a read changes nothing of the transmitter and nothing the write or
\* flush in progress has seen, and an access of a write or flush changes
\* neither the received word, nor a latched receive error, nor what the
\* read in progress has seen.  Each call returns what the call alone
\* returns on the state of its half: a read would-block with no word ready
\* and otherwise the error or word of Rx::read, consuming the word; a
\* write ok with the word then in the holding register, or would-block
\* with the register left as it was; a flush ok exactly when holding and
\* shift register are empty.  What a call has seen at its first access
\* still holds at its second, whatever the other context did in between.
C21_HalvesIndependent ==
    /\ [](/\ rx.pc = "data" => rxbuf # <<>>
          /\ tx.pc = "data" => thr = <<>>
          /\ rx.pc = "handle" <=> tx.pc = "handle")
    /\ [][/\ RxAccess => UNCHANGED <<thr, tsr, tx, regs, sysclk, nvic>>
          /\ TxAccess => UNCHANGED <<rxbuf, rxerr, rx, regs, sysclk, nvic>>
          /\ ~(RxAccess /\ TxAccess)
          /\ (RxAccess /\ rx.pc = "idle") =>
                /\ UNCHANGED <<rxbuf, rxerr>>
                /\ rx'.pc = "idle" <=> rxbuf = <<>>
                /\ rx'.pc = "idle" => rx'.res.kind = "WouldBlock"
          /\ (RxAccess /\ rx.pc = "data") =>
                /\ rx'.pc = "idle" /\ rx'.res = Rx_read
                /\ rx'.res.kind \in {"Error", "Word"}
                /\ rxbuf' = <<>> /\ rxerr' = {}
          /\ (TxAccess /\ tx.pc = "idle" /\ tx'.op = "write") =>
                /\ UNCHANGED <<thr, tsr>>
                /\ tx'.pc = "idle" <=> thr # <<>>
                /\ tx'.pc = "idle" => tx'.res.kind = "WouldBlock"
          /\ (TxAccess /\ tx.pc = "data") =>
                /\ tx'.pc = "idle" /\ tx'.res.kind = "Ok"
                /\ thr' = <<tx.word>> /\ UNCHANGED tsr
          /\ (TxAccess /\ tx'.op = "flush") =>
                /\ UNCHANGED <<thr, tsr>> /\ tx'.pc = "idle"
                /\ tx'.res.kind = "Ok" <=> (thr = <<>> /\ tsr = <<>>)
                /\ tx'.res.kind \in {"Ok", "WouldBlock"}
          /\ (rxbuf # <<>> /\ rxbuf' = <<>>) => RxAccess
          /\ (rxerr' # rxerr /\ rxerr' \subseteq rxerr) => RxAccess
          /\ (thr' # thr /\ thr' # <<>>) => TxAccess]_vars

\* C21 witness: a read and a write are both between their two accesses,
\* after a read that returned an error and a write that returned ok,
\* whose word is still in the shift register
C21_Witness ==
    /\ rx.pc = "data" /\ tx.pc = "data"
    /\ rx.res.kind = "Error" /\ tx.res.kind = "Ok"
    /\ rxbuf # <<>> /\ rxerr # {} /\ thr = <<>> /\ tsr # <<>>
    /\ state = "Enabled"

===========================================================================
